---- MODULE Spec2Model ----
(***************************************************************************)
(* Model of the stablecoin news service (src/app/main.py, src/app/utils.py) *)
(*                                                                         *)
(* Text is a sequence of one-character strings, so that str.lower() and    *)
(* the substring test `term in lowered` are computed, not assumed.         *)
(* Time is counted in whole hours.  A sentiment polarity p in [-1, 1] is   *)
(* the integer 100 * p.                                                    *)
(***************************************************************************)
EXTENDS Integers, Sequences, FiniteSets, TLC

VARIABLES
    now,                \* the clock read by datetime.utcnow(), in hours
    curated_articles,   \* main.py:116, the in-memory list
    db,                 \* the documents of mongo_db_client (main.py:27)
    lock,               \* the holder of article_lock (main.py:117), or "free"
    scheduler_running,  \* scheduler.running (main.py:118)
    next_run_time,      \* when the interval job is next due (main.py:240)
    pc,                 \* per execution of update_articles: its position
    src,                \* per execution: index of the feed of RSS_FEEDS in progress
    n_items,            \* per execution: entries iterated so far in this run
    item,               \* per execution: the entry the loop last read
    articles,           \* per execution: the local list `articles` / `new_articles`
    seen_titles,        \* per execution: the local set `seen_titles`
    titles_read,        \* per execution: lower-cased titles of the entries read so far
    k,                  \* per execution: how many of new_articles were upserted
    reader_pc,          \* position of a request to get_positive_news
    resp,               \* the last response body of get_positive_news, or None
    merged,             \* per execution: the list and the time its merge found
    pieces,             \* fragments of the argument of a call of has_regulator_context
    verdict             \* what the call returned, or None before the call

vars == << now, curated_articles, db, lock, scheduler_running, next_run_time,
           pc, src, n_items, item, articles, seen_titles, titles_read,
           k, merged, reader_pc, resp, pieces, verdict >>

\* An optional value (a Python value that may be None): None, or Some(x)
None    == << >>
Some(x) == << x >>
Val(o)  == o[1]

(***************************************************************************)
(* Strings                                                                 *)
(***************************************************************************)
UpperCase ==
    << "A", "B", "C", "D", "E", "F", "G", "H", "I", "J", "K", "L", "M",
       "N", "O", "P", "Q", "R", "S", "T", "U", "V", "W", "X", "Y", "Z" >>

LowerCase ==
    << "a", "b", "c", "d", "e", "f", "g", "h", "i", "j", "k", "l", "m",
       "n", "o", "p", "q", "r", "s", "t", "u", "v", "w", "x", "y", "z" >>

\* str.lower() on one character
LowerChar(c) ==
    IF \E i \in 1..Len(UpperCase) : UpperCase[i] = c
    THEN LowerCase[CHOOSE i \in 1..Len(UpperCase) : UpperCase[i] = c]
    ELSE c

\* str.lower()
Lower(s) == [i \in 1..Len(s) |-> LowerChar(s[i])]

\* `term in s` for strings: term occurs in s as a contiguous substring
Contains(s, term) ==
    \E i \in 1..(Len(s) - Len(term) + 1) :
        \A j \in 1..Len(term) : s[i + j - 1] = term[j]

\* any(term in s for term in terms)
AnyIn(s, terms) == \E i \in 1..Len(terms) : Contains(s, terms[i])

\* sum(term in s for term in terms)
RECURSIVE SumIn(_, _)
SumIn(s, terms) ==
    IF terms = << >> THEN 0
    ELSE (IF Contains(s, Head(terms)) THEN 1 ELSE 0) + SumIn(s, Tail(terms))

(***************************************************************************)
(* Lexicons (main.py:29-101)                                               *)
(***************************************************************************)
STABLECOIN_KEYWORDS ==
    << <<"s", "t", "a", "b", "l", "e", "c", "o", "i", "n">>,
       <<"u", "s", "d", "c">>,
       <<"u", "s", "d", "t">>,
       <<"t", "e", "t", "h", "e", "r">>,
       <<"d", "a", "i">>,
       <<"c", "i", "r", "c", "l", "e">> >>

REGULATOR_POSITIVE_KEYWORDS ==
    << <<"r", "e", "g", "u", "l", "a", "t", "i", "o", "n">>,
       <<"c", "o", "m", "p", "l", "i", "a", "n", "c", "e">>,
       <<"o", "v", "e", "r", "s", "i", "g", "h", "t">>,
       <<"p", "o", "l", "i", "c", "y">>,
       <<"r", "i", "s", "k", " ", "m", "a", "n", "a", "g", "e", "m", "e", "n", "t">>,
       <<"a", "m", "l">>,
       <<"a", "n", "t", "i", "-", "m", "o", "n", "e", "y", " ", "l", "a", "u", "n", "d", "e", "r", "i", "n", "g">>,
       <<"k", "y", "c">>,
       <<"l", "i", "c", "e", "n", "c", "e">>,
       <<"l", "i", "c", "e", "n", "s", "e">>,
       <<"c", "e", "n", "t", "r", "a", "l", " ", "b", "a", "n", "k">>,
       <<"c", "b", "d", "c">>,
       <<"b", "a", "s", "e", "l">>,
       <<"g", "o", "v", "e", "r", "n", "a", "n", "c", "e">>,
       <<"g", "u", "i", "d", "a", "n", "c", "e">>,
       <<"f", "r", "a", "m", "e", "w", "o", "r", "k">>,
       <<"s", "u", "p", "e", "r", "v", "i", "s", "i", "o", "n">>,
       <<"r", "e", "p", "o", "r", "t">>,
       <<"c", "o", "n", "s", "u", "l", "t", "a", "t", "i", "o", "n">>,
       <<"p", "i", "l", "o", "t">>,
       <<"s", "a", "n", "d", "b", "o", "x">>,
       <<"d", "i", "s", "c", "l", "o", "s", "u", "r", "e">>,
       <<"t", "r", "a", "n", "s", "p", "a", "r", "e", "n", "c", "y">>,
       <<"p", "r", "u", "d", "e", "n", "t", "i", "a", "l">>,
       <<"e", "n", "f", "o", "r", "c", "e", "m", "e", "n", "t">>,
       <<"r", "e", "g", "u", "l", "a", "t", "o", "r">>,
       <<"s", "e", "t", "t", "l", "e", "m", "e", "n", "t">>,
       <<"c", "o", "m", "p", "t", "r", "o", "l", "l", "e", "r">>,
       <<"t", "r", "e", "a", "s", "u", "r", "y">> >>

GENERAL_POLICY_TERMS ==
    << <<"p", "o", "l", "i", "c", "y">>,
       <<"l", "a", "w">>,
       <<"b", "i", "l", "l">>,
       <<"l", "e", "g", "i", "s", "l", "a", "t", "i", "o", "n">>,
       <<"s", "t", "a", "n", "d", "a", "r", "d">>,
       <<"g", "u", "i", "d", "e", "l", "i", "n", "e">>,
       <<"c", "o", "n", "s", "u", "l", "t", "a", "t", "i", "o", "n">>,
       <<"s", "u", "p", "e", "r", "v", "i", "s", "o", "r", "y">>,
       <<"o", "v", "e", "r", "s", "i", "g", "h", "t">>,
       <<"r", "i", "s", "k">>,
       <<"f", "r", "a", "m", "e", "w", "o", "r", "k">>,
       <<"w", "h", "i", "t", "e", " ", "p", "a", "p", "e", "r">>,
       <<"r", "e", "p", "o", "r", "t">>,
       <<"d", "i", "s", "c", "u", "s", "s", "i", "o", "n", " ", "p", "a", "p", "e", "r">>,
       <<"c", "o", "n", "s", "u", "l", "t", "a", "t", "i", "o", "n", " ", "p", "a", "p", "e", "r">>,
       <<"g", "o", "v", "e", "r", "n", "a", "n", "c", "e">>,
       <<"a", "u", "d", "i", "t", "i", "n", "g">>,
       <<"s", "e", "t", "t", "l", "e", "m", "e", "n", "t">> >>

NEGATIVE_TERMS ==
    << <<"h", "a", "c", "k">>,
       <<"s", "c", "a", "m">>,
       <<"f", "r", "a", "u", "d">>,
       <<"b", "a", "n">>,
       <<"c", "o", "l", "l", "a", "p", "s", "e">>,
       <<"l", "a", "w", "s", "u", "i", "t">>,
       <<"p", "u", "m", "p">>,
       <<"d", "u", "m", "p">>,
       <<"m", "o", "o", "n">> >>

CACHE_WINDOW_HOURS == 48

(***************************************************************************)
(* Relevance filters (main.py:123-143)                                     *)
(***************************************************************************)
includes_stablecoin_keyword(t) == AnyIn(Lower(t), STABLECOIN_KEYWORDS)

includes_regulator_positive_keyword(t) == AnyIn(Lower(t), REGULATOR_POSITIVE_KEYWORDS)

PolicyHitsNoThreshold(t) == SumIn(Lower(t), GENERAL_POLICY_TERMS) >= 1

PolicyHits(t) == SumIn(Lower(t), GENERAL_POLICY_TERMS) >= 2

has_regulator_context(t) ==
    IF includes_regulator_positive_keyword(Lower(t)) THEN TRUE
    ELSE PolicyHits(t)

contains_negative_term(t) == AnyIn(Lower(t), NEGATIVE_TERMS)

(***************************************************************************)
(* Text normaliser (utils.py)                                              *)
(*                                                                         *)
(* A raw description is the sequence of nodes BeautifulSoup finds in it:   *)
(* text nodes [tag |-> "text", data |-> chars] and image elements          *)
(* [tag |-> "img", data |-> Some(src) or None].                            *)
(***************************************************************************)
EmptyList == << "list", "empty" >>      \* the Python value [] (utils.py:11)

TextNode(s) == [tag |-> "text", data |-> s]
ImgNode(s)  == [tag |-> "img", data |-> s]

\* str.strip() on blanks
RECURSIVE Strip(_)
Strip(s) ==
    IF s = << >> THEN s
    ELSE IF Head(s) = " " THEN Strip(Tail(s))
    ELSE IF s[Len(s)] = " " THEN Strip(SubSeq(s, 1, Len(s) - 1))
    ELSE s

\* soup.get_text(" ", strip=True): the stripped, non-empty text nodes joined by " "
RECURSIVE get_text(_)
get_text(nodes) ==
    IF nodes = << >> THEN << >>
    ELSE LET n    == Head(nodes)
             rest == get_text(Tail(nodes))
             here == IF n.tag = "text" THEN Strip(n.data) ELSE << >>
         IN  IF here = << >> THEN rest
             ELSE IF rest = << >> THEN here
             ELSE here \o << " " >> \o rest

\* [img.get("src") for img in soup.find_all("img") if img.get("src")]
RECURSIVE image_urls(_)
image_urls(nodes) ==
    IF nodes = << >> THEN << >>
    ELSE LET n == Head(nodes)
         IN  IF n.tag = "img" /\ n.data # None /\ Val(n.data) # << >>
             THEN << Val(n.data) >> \o image_urls(Tail(nodes))
             ELSE image_urls(Tail(nodes))

\* utils.py:10-11
AbsentDescription == << << >>, EmptyList >>

\* parse_description(raw_desc) -> (clean_text, image)
parse_description(raw_desc) ==
    IF raw_desc = None THEN AbsentDescription
    ELSE LET urls == image_urls(Val(raw_desc))
         IN  << get_text(Val(raw_desc)),
                IF Len(urls) = 0 THEN None ELSE Some(urls[1]) >>

(***************************************************************************)
(* fetch_and_filter_articles, the body of the loop over items              *)
(* (main.py:167-211).  An entry is                                         *)
(*   [title, description, media, polarity]                                 *)
(* title: Some(chars), or None (no <title>, or an empty element);          *)
(* description: Some(nodes) or None; media: None (no media:content         *)
(* element) or Some(attrib.get("url")), itself Some(chars) or None;        *)
(* polarity: what analyze_sentiment returns for the entry's text (TextBlob *)
(* is outside the repository).  link and pubDate are copied through unread *)
(* and are left out.  An article's image_url is Some(chars), None or       *)
(* EmptyList.                                                              *)
(***************************************************************************)
\* main.py:186
content_for_filter(title, summary) == title \o << " " >> \o summary

\* main.py:182-184
resolve_image(e, parsed_image) ==
    IF e.media # None THEN Val(e.media) ELSE parsed_image

\* main.py:169 with the membership test dropped
skip_title_nodedup(title, lowered, seen) == title = << >>

\* main.py:169: not title or title.lower() in seen_titles, for a title that is
\* not None; lowered is title.lower()
skip_title(title, lowered, seen) == title = << >> \/ lowered \in seen

\* main.py:190-195 with the bar for negative terms at 0.1
sentiment_rejects_flat(content, sentiment) == sentiment < 10

\* main.py:190-195
sentiment_rejects(content, sentiment) ==
    IF sentiment < 10 THEN TRUE
    ELSE contains_negative_term(content) /\ sentiment < 30

\* main.py:172-198 for one entry whose title passed line 169: None when a filter
\* rejects it (`continue`), else the fields the article takes from the entry
Filtered(e) ==
    LET parsed    == parse_description(e.description)
        summary   == parsed[1]
        image_url == resolve_image(e, parsed[2])
        content   == content_for_filter(Val(e.title), summary)
    IN  IF ~includes_stablecoin_keyword(content) THEN None
        ELSE LET sentiment == e.polarity
             IN  IF sentiment_rejects(content, sentiment) THEN None
                 ELSE IF ~has_regulator_context(content) THEN None
                 ELSE Some([summary |-> summary, image_url |-> image_url,
                            sentiment |-> sentiment])

(***************************************************************************)
(* Retention (main.py:216-234)                                             *)
(***************************************************************************)
Digits == << "0", "1", "2", "3", "4", "5", "6", "7", "8", "9" >>

DigitValue(c) == (CHOOSE i \in 1..10 : Digits[i] = c) - 1

TwoDigits(n) == << Digits[(n \div 10) + 1], Digits[(n % 10) + 1] >>

\* datetime.isoformat(), to the hour: "DDTHH", days counted from 01
isoformat(t) == TwoDigits((t \div 24) + 1) \o << "T" >> \o TwoDigits(t % 24)

\* datetime.fromisoformat()
fromisoformat(s) ==
    ((DigitValue(s[1]) * 10 + DigitValue(s[2])) - 1) * 24
        + DigitValue(s[4]) * 10 + DigitValue(s[5])

\* article.get("fetched_at", datetime.utcnow().isoformat())
fetched_at_of(a, t) ==
    IF "fetched_at" \in DOMAIN a THEN a.fetched_at ELSE isoformat(t)

\* main.py:224-225 with the comparison turned around
keeps_old(a, t) == fromisoformat(fetched_at_of(a, t)) <= t - CACHE_WINDOW_HOURS

\* main.py:224-225, cutoff = now - 48 h (main.py:220)
keeps(a, t) == fromisoformat(fetched_at_of(a, t)) >= t - CACHE_WINDOW_HOURS

\* the list comprehension of main.py:221-226
evicted(list, t) == SelectSeq(list, LAMBDA a : keeps(a, t))

\* mongo_db_client.find_one_and_update({title, source}, {"$set": article}, upsert=True)
find_one_and_update(docs, a) ==
    LET hit == { d \in docs : d.title = a.title /\ d.source = a.source }
    IN  IF hit = {} THEN docs \cup { a }
        ELSE (docs \ { CHOOSE d \in hit : TRUE }) \cup { a }

(***************************************************************************)
(* Bounds and inputs                                                       *)
(***************************************************************************)
NumFeeds == 2       \* how many feeds of the registry a run polls
MaxItems == 1       \* entries one run reads over all its feeds, in Spec and SpecEvict
MaxFeedItems == 2   \* entries the run of SpecRun reads over all its feeds
MaxTime  == 1       \* hours the clock advances
MaxHeld  == 2       \* articles held at the start of a merge (SpecEvict)
MaxFrags == 3       \* fragments of a text given to has_regulator_context

JobInterval == 1    \* hours=1 (main.py:240)

\* names of RSS_FEEDS in dict order (main.py:105-113)
AllFeeds ==
    << "CoinDesk", "Cointelegraph", "CryptoSlate", "ECB News",
       "Chainalysis", "Elliptic", "FCA News" >>

RSS_FEEDS == SubSeq(AllFeeds, 1, NumFeeds)

Runs == { "startup", "job" }

S_FED    == <<"F", "e", "d", " ", "I", "s", "s", "u", "e", "s", " ", "G", "u", "i", "d", "a", "n", "c", "e">>    \* "Fed Issues Guidance"
S_fed    == <<"f", "e", "d", " ", "i", "s", "s", "u", "e", "s", " ", "g", "u", "i", "d", "a", "n", "c", "e">>    \* "fed issues guidance"
S_MEMO   == <<"M", "e", "m", "o">>    \* "Memo"
S_TETHER == <<"T", "e", "t", "h", "e", "r", " ", "G", "u", "i", "d", "a", "n", "c", "e">>    \* "Tether Guidance"
W_USDC   == <<" ", "U", "S", "D", "C">>    \* " USDC"
W_SCAM   == <<" ", "s", "c", "a", "m">>    \* " scam"
W_KYC    == <<" ", "K", "Y", "C">>    \* " KYC"
W_NEWS   == <<" ", "n", "e", "w", "s", " ">>    \* " news "
URL_A    == <<"a", ".", "p", "n", "g">>    \* "a.png"
URL_B    == <<"b", ".", "p", "n", "g">>    \* "b.png"
URL_M    == <<"m", ".", "p", "n", "g">>    \* "m.png"

\* pieces of the texts given to has_regulator_context
Fragments ==
    { <<" ", "c", "e", "n", "t", "r", "a", "l", " ", "b", "a", "n", "k">>,     \* " central bank"
      <<" ", "p", "o", "l", "i", "c", "y">>,     \* " policy"
      <<" ", "r", "i", "s", "k">>,     \* " risk"
      <<" ", "R", "I", "S", "K">>,     \* " RISK"
      <<" ", "l", "a", "w">>,     \* " law"
      <<" ", "n", "e", "w", "s">> }     \* " news"

\* articles the list may hold when a merge starts (SpecEvict); the second kind has
\* no fetched_at key
HeldArticles ==
    { [ title |-> S_FED, summary |-> W_USDC, image_url |-> None, source |-> AllFeeds[1],
        sentiment |-> 35, fetched_at |-> isoformat(t) ] : t \in 0..(MaxTime + 1) }
    \cup { [ title |-> S_MEMO, summary |-> W_USDC, image_url |-> None,
             source |-> AllFeeds[1], sentiment |-> 35 ] }

RECURSIVE SeqsUpTo(_, _)
SeqsUpTo(S, n) ==
    IF n = 0 THEN { << >> }
    ELSE LET shorter == SeqsUpTo(S, n - 1)
         IN  shorter \cup { Append(s, x) : s \in shorter, x \in S }

Polarities == { 5, 10, 20, 30, 35 }

Medias == { None, Some(Some(URL_M)), Some(None) }

Words(kw, neg, ctx) ==
    (IF kw THEN W_USDC ELSE << >>) \o (IF neg THEN W_SCAM ELSE << >>)
        \o (IF ctx THEN W_KYC ELSE << >>) \o W_NEWS

Entry(t, d, m, p) == [title |-> t, description |-> d, media |-> m, polarity |-> p]

\* every combination of the four filter conditions, under a neutral title
FilterEntries ==
    { Entry(Some(S_MEMO), Some(<< TextNode(Words(kw, neg, ctx)) >>), None, p) :
        kw \in BOOLEAN, neg \in BOOLEAN, ctx \in BOOLEAN, p \in Polarities }

\* absent, empty and case-variant titles
TitleEntries ==
    { Entry(t, Some(<< TextNode(Words(kw, FALSE, FALSE)) >>), None, 35) :
        t \in { None, Some(<< >>), Some(S_FED), Some(S_fed) }, kw \in BOOLEAN }

\* descriptions with and without images, with and without a media:content element
ImageEntries ==
    { Entry(Some(S_MEMO), Some(d), m, 35) :
        d \in { << TextNode(Words(TRUE, FALSE, TRUE)) >>,
                << TextNode(Words(TRUE, FALSE, TRUE)), ImgNode(Some(URL_A)) >>,
                << ImgNode(None), TextNode(Words(TRUE, FALSE, TRUE)),
                   ImgNode(Some(URL_A)), ImgNode(Some(URL_B)) >> },
        m \in Medias }
    \cup { Entry(Some(S_TETHER), None, m, 35) : m \in Medias }

RichPool == FilterEntries \cup TitleEntries \cup ImageEntries

SmallPool ==
    { Entry(Some(S_FED), Some(<< TextNode(W_USDC) >>), None, 35),
      Entry(Some(S_MEMO), Some(<< TextNode(W_KYC) >>), None, 35),
      Entry(None, None, None, 35) }

AllEntries == RichPool \cup SmallPool

\* Filtered and the lower-cased title, tabulated over the entries the feeds deliver
FilteredOf == [e \in { x \in AllEntries : x.title # None } |-> Filtered(e)]

LowerTitleOf == [e \in { x \in AllEntries : x.title # None } |-> Lower(Val(e.title))]

\* the article built at main.py:200-209
Article(e, f, source, t) ==
    [ title      |-> Val(e.title),
      summary    |-> f.summary,
      image_url  |-> f.image_url,
      source     |-> source,
      sentiment  |-> f.sentiment,
      fetched_at |-> t ]

\* One pass of the loop body (main.py:168-211): the new (articles, seen_titles)
ProcessEntry(e, arts, seen, source, t) ==
    IF e.title = None THEN << arts, seen >>
    ELSE IF skip_title(Val(e.title), LowerTitleOf[e], seen) THEN << arts, seen >>
    ELSE LET f == FilteredOf[e]
         IN  IF f = None THEN << arts, seen >>
             ELSE << Append(arts, Article(e, Val(f), source, t)),
                     seen \cup { LowerTitleOf[e] } >>

(***************************************************************************)
(* State machine                                                           *)
(***************************************************************************)
Init ==
    /\ now = 0
    /\ curated_articles = << >>
    /\ db = { }
    /\ lock = "free"
    /\ scheduler_running = FALSE
    /\ next_run_time = 0
    /\ pc = [u \in Runs |-> IF u = "startup" THEN "init" ELSE "idle"]
    /\ src = [u \in Runs |-> 1]
    /\ n_items = [u \in Runs |-> 0]
    /\ item = [u \in Runs |-> None]
    /\ articles = [u \in Runs |-> << >>]
    /\ seen_titles = [u \in Runs |-> { }]
    /\ titles_read = [u \in Runs |-> { }]
    /\ k = [u \in Runs |-> 0]
    /\ merged = [u \in Runs |-> None]
    /\ reader_pc = "idle"
    /\ resp = None
    /\ pieces = << >>
    /\ verdict = None

shared   == << curated_articles, db, lock >>
sched    == << scheduler_running, next_run_time >>
locals   == << src, n_items, item, articles, seen_titles, titles_read, k, merged >>
reader   == << reader_pc, resp >>
direct   == << pieces, verdict >>

\* the locals of update_articles and fetch_and_filter_articles as they are when
\* the function is entered (main.py:151-152) and once it is left
Fresh(u) ==
    /\ src' = [src EXCEPT ![u] = 1]
    /\ n_items' = [n_items EXCEPT ![u] = 0]
    /\ item' = [item EXCEPT ![u] = None]
    /\ articles' = [articles EXCEPT ![u] = << >>]
    /\ seen_titles' = [seen_titles EXCEPT ![u] = { }]
    /\ titles_read' = [titles_read EXCEPT ![u] = { }]
    /\ k' = [k EXCEPT ![u] = 0]
    /\ merged' = [merged EXCEPT ![u] = None]

\* update_articles is called
Enter(u) ==
    /\ pc' = [pc EXCEPT ![u] = "fetch"]
    /\ Fresh(u)

\* startup_event (main.py:237-242): the job is added with next_run_time = now and the
\* scheduler started, then update_articles runs in the thread pool
StartupEvent ==
    /\ pc["startup"] = "init"
    /\ IF ~scheduler_running
       THEN scheduler_running' = TRUE /\ next_run_time' = now
       ELSE UNCHANGED sched
    /\ Enter("startup")
    /\ UNCHANGED << now, shared, reader, direct >>

\* the scheduler runs the interval job when it is due and no instance of it is running
JobFire ==
    /\ scheduler_running
    /\ pc["job"] \in { "idle", "raised" }
    /\ now >= next_run_time
    /\ next_run_time' = next_run_time + JobInterval
    /\ Enter("job")
    /\ UNCHANGED << now, scheduler_running, shared, reader, direct >>

\* the job is due while its previous instance still runs: the run is skipped
JobSkip ==
    /\ scheduler_running
    /\ pc["job"] \notin { "idle", "raised" }
    /\ now >= next_run_time
    /\ next_run_time' = next_run_time + JobInterval
    /\ UNCHANGED << now, scheduler_running, shared, pc, locals, reader, direct >>

\* main.py:154-166: one feed is requested and parsed
FetchOk(u) ==
    /\ pc[u] = "fetch"
    /\ pc' = [pc EXCEPT ![u] = "items"]
    /\ UNCHANGED << now, shared, sched, locals, reader, direct >>

\* main.py:156-164: requests.get raises, raise_for_status raises, ET.fromstring
\* raises, or root.find("channel") is None and channel.findall raises.  Nothing
\* catches it: it leaves fetch_and_filter_articles and update_articles
FetchRaises(u) ==
    /\ pc[u] = "fetch"
    /\ pc' = [pc EXCEPT ![u] = "raised"]
    /\ Fresh(u)
    /\ UNCHANGED << now, shared, sched, reader, direct >>

\* main.py:167-211: the loop reads the next item of the feed
ReadItem(u, pool, limit) ==
    /\ pc[u] = "items"
    /\ n_items[u] < limit
    /\ \E e \in pool :
        LET r == ProcessEntry(e, articles[u], seen_titles[u], RSS_FEEDS[src[u]], isoformat(now))
        IN  /\ item' = [item EXCEPT ![u] = Some(e)]
            /\ articles' = [articles EXCEPT ![u] = r[1]]
            /\ seen_titles' = [seen_titles EXCEPT ![u] = r[2]]
            /\ titles_read' = [titles_read EXCEPT ![u] =
                    IF e.title = None \/ Val(e.title) = << >> THEN @ ELSE @ \cup { LowerTitleOf[e] }]
    /\ n_items' = [n_items EXCEPT ![u] = @ + 1]
    /\ UNCHANGED << now, shared, sched, pc, src, k, merged, reader, direct >>

\* the items of the feed are exhausted: next feed, or return articles (main.py:213)
EndSource(u) ==
    /\ pc[u] = "items"
    /\ IF src[u] < Len(RSS_FEEDS)
       THEN /\ src' = [src EXCEPT ![u] = @ + 1]
            /\ pc' = [pc EXCEPT ![u] = "fetch"]
       ELSE /\ pc' = [pc EXCEPT ![u] = "merge"]
            /\ UNCHANGED src
    /\ item' = [item EXCEPT ![u] = None]
    /\ UNCHANGED << now, shared, sched, n_items, articles, seen_titles,
                    titles_read, k, merged, reader, direct >>

\* threading.Lock: acquire blocks while the lock is held
LockFreeNever == TRUE

LockFree == lock = "free"

\* main.py:219: with article_lock
AcquireLock(u) ==
    /\ pc[u] = "merge"
    /\ LockFree
    /\ lock' = u
    /\ pc' = [pc EXCEPT ![u] = "evict"]
    /\ UNCHANGED << now, curated_articles, db, sched, locals, reader, direct >>

\* main.py:220-226: the slice assignment, then the lock is released
Evict(u) ==
    /\ pc[u] = "evict"
    /\ curated_articles' = evicted(curated_articles, now)
    /\ merged' = [merged EXCEPT ![u] = Some([held |-> curated_articles, at |-> now])]
    /\ lock' = "free"
    /\ pc' = [pc EXCEPT ![u] = "store"]
    /\ UNCHANGED << now, db, sched, src, n_items, item, articles, seen_titles,
                    titles_read, k, reader, direct >>

\* main.py:228-232: one pass of the loop over new_articles
Upsert(u) ==
    /\ pc[u] = "store"
    /\ k[u] < Len(articles[u])
    /\ db' = find_one_and_update(db, articles[u][k[u] + 1])
    /\ k' = [k EXCEPT ![u] = @ + 1]
    /\ UNCHANGED << now, curated_articles, lock, sched, pc, src, n_items, item,
                    articles, seen_titles, titles_read, merged, reader, direct >>

\* main.py:234: update_articles returns
Return(u) ==
    /\ pc[u] = "store"
    /\ k[u] = Len(articles[u])
    /\ pc' = [pc EXCEPT ![u] = IF u = "startup" THEN "done" ELSE "idle"]
    /\ Fresh(u)
    /\ UNCHANGED << now, shared, sched, reader, direct >>

\* get_positive_news (main.py:251-254).  Requests are served once startup_event has
\* returned.  The body read under the lock holds len(curated_articles) and a
\* reference to the list; the list is read when the response is encoded.
ReaderAcquire ==
    /\ reader_pc = "idle"
    /\ pc["startup"] = "done"
    /\ LockFree
    /\ lock' = "reader"
    /\ reader_pc' = "locked"
    /\ UNCHANGED << now, curated_articles, db, sched, pc, locals, resp, direct >>

ReaderReturn ==
    /\ reader_pc = "locked"
    /\ resp' = Some([count |-> Len(curated_articles), articles |-> None])
    /\ lock' = "free"
    /\ reader_pc' = "encode"
    /\ UNCHANGED << now, curated_articles, db, sched, pc, locals, direct >>

ReaderEncode ==
    /\ reader_pc = "encode"
    /\ resp' = Some([Val(resp) EXCEPT !.articles = Some(curated_articles)])
    /\ reader_pc' = "idle"
    /\ UNCHANGED << now, shared, sched, pc, locals, direct >>

\* an hour passes
Tick(limit) ==
    /\ now < limit
    /\ now' = now + 1
    /\ UNCHANGED << shared, sched, pc, locals, reader, direct >>

Next ==
    \/ StartupEvent
    \/ JobFire
    \/ JobSkip
    \/ \E u \in Runs : FetchOk(u)
    \/ \E u \in Runs : FetchRaises(u)
    \/ \E u \in Runs : ReadItem(u, SmallPool, MaxItems)
    \/ \E u \in Runs : EndSource(u)
    \/ \E u \in Runs : AcquireLock(u)
    \/ \E u \in Runs : Evict(u)
    \/ \E u \in Runs : Upsert(u)
    \/ \E u \in Runs : Return(u)
    \/ ReaderAcquire
    \/ ReaderReturn
    \/ ReaderEncode
    \/ Tick(MaxTime)

Spec == Init /\ [][Next]_vars

(***************************************************************************)
(* One run of update_articles on its own, its feeds delivering RichPool    *)
(***************************************************************************)
NextRun ==
    \/ StartupEvent
    \/ FetchOk("startup")
    \/ FetchRaises("startup")
    \/ ReadItem("startup", RichPool, MaxFeedItems)
    \/ EndSource("startup")
    \/ AcquireLock("startup")
    \/ Evict("startup")
    \/ Upsert("startup")
    \/ Return("startup")

SpecRun == Init /\ [][NextRun]_vars

(***************************************************************************)
(* The merge of main.py:219-226 as a function of the list it finds and of  *)
(* the time: the service after start-up, the list holding any articles,    *)
(* the interval job running.                                               *)
(***************************************************************************)
InitEvict ==
    /\ now = CACHE_WINDOW_HOURS
    /\ curated_articles \in SeqsUpTo(HeldArticles, MaxHeld)
    /\ db = { }
    /\ lock = "free"
    /\ scheduler_running = TRUE
    /\ next_run_time = CACHE_WINDOW_HOURS
    /\ pc = [u \in Runs |-> IF u = "startup" THEN "done" ELSE "idle"]
    /\ src = [u \in Runs |-> 1]
    /\ n_items = [u \in Runs |-> 0]
    /\ item = [u \in Runs |-> None]
    /\ articles = [u \in Runs |-> << >>]
    /\ seen_titles = [u \in Runs |-> { }]
    /\ titles_read = [u \in Runs |-> { }]
    /\ k = [u \in Runs |-> 0]
    /\ merged = [u \in Runs |-> None]
    /\ reader_pc = "idle"
    /\ resp = None
    /\ pieces = << >>
    /\ verdict = None

NextEvict ==
    \/ JobFire
    \/ JobSkip
    \/ FetchOk("job")
    \/ FetchRaises("job")
    \/ ReadItem("job", SmallPool, MaxItems)
    \/ EndSource("job")
    \/ AcquireLock("job")
    \/ Evict("job")
    \/ Upsert("job")
    \/ Return("job")
    \/ Tick(CACHE_WINDOW_HOURS + MaxTime + 1)

SpecEvict == InitEvict /\ [][NextEvict]_vars

(***************************************************************************)
(* has_regulator_context called on texts put together from Fragments       *)
(***************************************************************************)
RECURSIVE Joined(_)
Joined(ps) == IF ps = << >> THEN << >> ELSE Head(ps) \o Joined(Tail(ps))

AppendFragment ==
    /\ Len(pieces) < MaxFrags
    /\ \E f \in Fragments : pieces' = Append(pieces, f)
    /\ verdict' = None
    /\ UNCHANGED << now, shared, sched, pc, locals, reader >>

CallContext ==
    /\ verdict = None
    /\ verdict' = Some(has_regulator_context(Joined(pieces)))
    /\ UNCHANGED << now, shared, sched, pc, locals, reader, pieces >>

NextContext == AppendFragment \/ CallContext

SpecContext == Init /\ [][NextContext]_vars

(***************************************************************************)
(* Properties                                                              *)
(***************************************************************************)
T_SCAM         == <<"s", "c", "a", "m">>    \* "scam"
T_CENTRAL_BANK == <<"c", "e", "n", "t", "r", "a", "l", " ", "b", "a", "n", "k">>    \* "central bank"
T_POLICY       == <<"p", "o", "l", "i", "c", "y">>    \* "policy"
T_RISK         == <<"r", "i", "s", "k">>    \* "risk"

Running(u) == pc[u] \in { "fetch", "items", "merge", "evict", "store" }

\* the step is one pass of the loop over items by execution u
ReadStep(u) == pc[u] = "items" /\ n_items'[u] = n_items[u] + 1

LowerTitles(list) == { Lower(list[i].title) : i \in DOMAIN list }

\* the text the filters of an entry with a title are applied to
FilterText(e) == Val(e.title) \o << " " >> \o parse_description(e.description)[1]

\* C1's admission rule for the text of entry e and its sentiment
Admitted(e) ==
    /\ includes_stablecoin_keyword(FilterText(e))
    /\ e.polarity >= 10
    /\ ~(contains_negative_term(FilterText(e)) /\ e.polarity < 30)
    /\ has_regulator_context(FilterText(e))

AdmittedOf == [e \in { x \in AllEntries : x.title # None } |-> Admitted(e)]

HasScamOf ==
    [e \in { x \in AllEntries : x.title # None } |-> Contains(Lower(FilterText(e)), T_SCAM)]

\* C1: an entry with a non-empty title not yet seen in the run is appended to the
\* run's articles exactly when its text mentions a stablecoin keyword, its sentiment
\* is >= 0.1, it does not both hold a negative term and have sentiment < 0.3, and it
\* has regulator context; a rejected entry leaves the list as it was and the run
\* goes on.  An entry with "scam" and sentiment 0.2 is rejected, one with 0.35 and
\* the other filters passing is appended.
C1_AdmissionRule ==
    [][\A u \in Runs :
        ReadStep(u) =>
            LET e == Val(item'[u])
            IN  (e.title # None /\ Val(e.title) # << >>
                    /\ Lower(Val(e.title)) \notin seen_titles[u]) =>
                /\ pc'[u] = "items"
                /\ IF AdmittedOf[e]
                   THEN /\ Len(articles'[u]) = Len(articles[u]) + 1
                        /\ SubSeq(articles'[u], 1, Len(articles[u])) = articles[u]
                        /\ articles'[u][Len(articles'[u])].title = Val(e.title)
                        /\ articles'[u][Len(articles'[u])].sentiment = e.polarity
                   ELSE articles'[u] = articles[u]
                /\ (HasScamOf[e] /\ e.polarity = 20) => articles'[u] = articles[u]
                /\ (HasScamOf[e] /\ e.polarity = 35 /\ includes_stablecoin_keyword(FilterText(e))
                        /\ has_regulator_context(FilterText(e)))
                    => Len(articles'[u]) = Len(articles[u]) + 1
    ]_vars

\* an entry with "scam" and sentiment 0.35 was appended
C1_Witness ==
    /\ item["startup"] # None
    /\ Val(item["startup"]).title # None
    /\ HasScamOf[Val(item["startup"])]
    /\ Val(item["startup"]).polarity = 35
    /\ Len(articles["startup"]) = 1
    /\ Contains(Lower(articles["startup"][1].summary), T_SCAM)
    /\ articles["startup"][1].sentiment = 35

\* C2: a feed that fails to be fetched or parsed does not end the run: no execution
\* of update_articles is left by the exception of a feed.
C2_RunSurvivesFeedFailure == \A u \in Runs : pc[u] # "raised"

\* C3: once a run has merged, every article it curated has its lower-cased title in
\* the in-memory list, so that get_positive_news returns it.
C3_CuratedAreRetained ==
    \A u \in Runs :
        pc[u] = "store" => LowerTitles(articles[u]) \subseteq LowerTitles(curated_articles)

\* hours between the fetched_at of article a and time t
Age(a, t) == t - fromisoformat(a.fetched_at)

Dated(list) == SelectSeq(list, LAMBDA a : "fetched_at" \in DOMAIN a)

InWindow(list, t) == SelectSeq(Dated(list), LAMBDA a : Age(a, t) <= CACHE_WINDOW_HOURS)

\* C4: right after a merge the in-memory list holds no article fetched more than 48
\* hours before the merge, and the held articles fetched within the 48 hours are
\* all still there, in the order they had; also when the run curated nothing.
C4_EvictionByAge ==
    [][\A u \in Runs :
        (pc[u] = "evict" /\ pc'[u] = "store") =>
            /\ \A i \in DOMAIN curated_articles' :
                /\ "fetched_at" \in DOMAIN curated_articles'[i]
                        => Age(curated_articles'[i], now) <= CACHE_WINDOW_HOURS
                /\ \E j \in DOMAIN curated_articles : curated_articles[j] = curated_articles'[i]
            /\ Len(curated_articles') <= Len(curated_articles)
            /\ InWindow(curated_articles', now) = InWindow(curated_articles, now)
    ]_vars

\* a merge of a run that curated nothing found an article fetched 50 hours before
\* and one fetched 48 hours before: the first is gone, the second is still held
C4_Witness ==
    /\ pc["job"] = "store"
    /\ articles["job"] = << >>
    /\ merged["job"] # None
    /\ \E i \in DOMAIN Val(merged["job"]).held :
        LET a == Val(merged["job"]).held[i]
        IN  /\ "fetched_at" \in DOMAIN a
            /\ Age(a, Val(merged["job"]).at) = 50
    /\ \E i \in DOMAIN Val(merged["job"]).held :
        LET a == Val(merged["job"]).held[i]
        IN  /\ "fetched_at" \in DOMAIN a
            /\ Age(a, Val(merged["job"]).at) = CACHE_WINDOW_HOURS
    /\ Len(curated_articles) = 1
    /\ Age(curated_articles[1], Val(merged["job"]).at) = CACHE_WINDOW_HOURS

\* C5: titles in the retained set, in memory and persisted, are non-empty and
\* pairwise different when compared case-insensitively.
C5_TitlesUnique ==
    /\ \A d \in db : d.title # << >>
    /\ \A d1, d2 \in db : d1 # d2 => Lower(d1.title) # Lower(d2.title)
    /\ \A i, j \in DOMAIN curated_articles :
        /\ curated_articles[i].title # << >>
        /\ i # j => Lower(curated_articles[i].title) # Lower(curated_articles[j].title)

NoTwoSameLower(list) ==
    \A i, j \in DOMAIN list : i # j => Lower(list[i].title) # Lower(list[j].title)

\* C6 (as amended): an entry whose lower-cased title equals that of an entry the
\* run has already appended to its articles is rejected, whatever its source; the
\* list of the run never holds two articles with the same lower-cased title.
C6_DedupAgainstAppended ==
    /\ [](\A u \in Runs : NoTwoSameLower(articles[u]))
    /\ [][\A u \in Runs :
            ReadStep(u) =>
                LET e == Val(item'[u])
                IN  (e.title # None /\ Lower(Val(e.title)) \in LowerTitles(articles[u]))
                        => articles'[u] = articles[u]
       ]_vars

\* "fed issues guidance" was read after "Fed Issues Guidance" had been appended, with
\* text that passes the filters, and the list still holds the first alone
C6_Witness ==
    /\ n_items["startup"] = 2
    /\ item["startup"] # None
    /\ Val(item["startup"]).title = Some(S_fed)
    /\ AdmittedOf[Val(item["startup"])]
    /\ Len(articles["startup"]) = 1
    /\ articles["startup"][1].title = S_FED

\* C6 as stated: an entry whose lower-cased title equals that of any earlier entry
\* of the run is rejected.
C6_DedupAgainstRead ==
    [][\A u \in Runs :
        ReadStep(u) =>
            LET e == Val(item'[u])
            IN  (e.title # None /\ Val(e.title) # << >>
                    /\ Lower(Val(e.title)) \in titles_read[u])
                    => articles'[u] = articles[u]
    ]_vars

GeneralIn(t) ==
    { GENERAL_POLICY_TERMS[i] : i \in { j \in DOMAIN GENERAL_POLICY_TERMS :
                                            Contains(t, GENERAL_POLICY_TERMS[j]) } }

StrongIn(t) ==
    { REGULATOR_POSITIVE_KEYWORDS[i] : i \in { j \in DOMAIN REGULATOR_POSITIVE_KEYWORDS :
                                                Contains(t, REGULATOR_POSITIVE_KEYWORDS[j]) } }

ContextRule(t) == StrongIn(Lower(t)) # { } \/ Cardinality(GeneralIn(Lower(t))) >= 2

\* t holds term and no other term of either lexicon
OnlyTerm(t, term) == StrongIn(Lower(t)) \cup GeneralIn(Lower(t)) = { term }

\* C8 (as amended): has_regulator_context(text) is true exactly when the lower-cased
\* text holds a term of the strong lexicon, or two distinct terms of the general
\* lexicon.  It is true for "central bank" alone and for "policy" with "risk"; it
\* is false for text whose only lexicon term is "risk"; it is true for text whose
\* only lexicon term is "policy", which is a term of the strong lexicon too.
C8_ContextRule ==
    verdict # None =>
        LET t == Joined(pieces)
        IN  /\ Val(verdict) = ContextRule(t)
            /\ Contains(Lower(t), T_CENTRAL_BANK) => Val(verdict) = TRUE
            /\ (Contains(Lower(t), T_POLICY) /\ Contains(Lower(t), T_RISK)) => Val(verdict) = TRUE
            /\ OnlyTerm(t, T_RISK) => Val(verdict) = FALSE
            /\ OnlyTerm(t, T_POLICY) => Val(verdict) = TRUE

\* two general terms and no strong one: true; for "risk" twice over: false
C8_Witness ==
    /\ verdict = Some(TRUE)
    /\ StrongIn(Lower(Joined(pieces))) = { }
    /\ Cardinality(GeneralIn(Lower(Joined(pieces)))) = 2

\* C8 as stated: ... and false for text that holds only one of "policy" and "risk"
\* and no other lexicon term.
C8_ContextRuleAsStated ==
    verdict # None =>
        LET t == Joined(pieces)
        IN  /\ Val(verdict) = ContextRule(t)
            /\ Contains(Lower(t), T_CENTRAL_BANK) => Val(verdict) = TRUE
            /\ (Contains(Lower(t), T_POLICY) /\ Contains(Lower(t), T_RISK)) => Val(verdict) = TRUE
            /\ (OnlyTerm(t, T_RISK) \/ OnlyTerm(t, T_POLICY)) => Val(verdict) = FALSE

\* C9: the eager run of startup_event and the run of the scheduler's job are never
\* in progress together.
C9_RunsDoNotOverlap == ~(Running("startup") /\ Running("job"))

\* the image the claim gives entry e: the url of its media:content element when it
\* has one, else the first image of the description, else none
ClaimedImage(e) ==
    IF e.media # None /\ Val(e.media) # None THEN Val(e.media)
    ELSE IF e.description = None THEN None
    ELSE LET urls == image_urls(Val(e.description))
         IN  IF urls = << >> THEN None ELSE Some(urls[1])

\* C10: the image_url of an appended article is the url of the entry's media:content
\* element when that element carries one, and in every other case the first image
\* src of the description, or none.
C10_ImagePrecedence ==
    [][\A u \in Runs :
        (ReadStep(u) /\ Len(articles'[u]) = Len(articles[u]) + 1) =>
            articles'[u][Len(articles'[u])].image_url = ClaimedImage(Val(item'[u]))
    ]_vars

====
